---- MODULE Spec2Model ----
(***************************************************************************)
(* Tiling, clipping, merging and class-registry engine of the image        *)
(* labeling backend (src/backend/app).                                     *)
(*                                                                         *)
(*   SpecReg     ClassService.get_or_create_class_id, callers interleaved  *)
(*   SpecRegSeq  the same calls one after another, registry file may be    *)
(*               damaged between calls                                     *)
(*   SpecSlices  get_slices on its own                                     *)
(*   SpecTiled   DatasetService._process_tiled / _sandbox_tiled            *)
(*   SpecMerge   InferenceService.detect_all, tiled path                   *)
(*   SpecRemap     prepare_multi_project_training_job, steps 1 to 3        *)
(*   SpecAnnotate  registrations and save_annotation calls, in sequence    *)
(*   SpecNms       safe_nms on its own                                     *)
(*   SpecSplit     split_polygon                                           *)
(*   SpecTrainV1   api/v1 train_model, cancel_training, _train_model_task  *)
(*   SpecTrainSvc  TrainingService.run_training_task and request_stop      *)
(*   SpecTasks     api train_model with task records; SpecTasksFair adds   *)
(*                 that every added background task is run                 *)
(*                                                                         *)
(* Pixel coordinates are integers and arithmetic is exact; overlap ratios  *)
(* are multiples of 1/4, for which int(tile_size * (1 - overlap)) is the   *)
(* exact floor.                                                            *)
(***************************************************************************)
EXTENDS Integers, Sequences, FiniteSets, TLC

VARIABLES
    \* ---- class registry (class_service.py) ----
    file,        \* project_classes.json: [ok, map]; ok = FALSE when json.load fails
    classesTxt,  \* classes.txt: its non-blank lines, stripped (what every
                 \* reader of the file keeps)
    pc,          \* per caller: position inside get_or_create_class_id
    arg,         \* per caller: class_name
    registry,    \* per caller: the local dict returned by get_registry()
    newId,       \* per caller: new_id
    ret,         \* per caller: value returned by the last finished call
    fresh,       \* per caller: class_name was absent from the file when the call started
    calls,       \* number of calls started so far
    returned,    \* every <<name, id>> a call has returned so far
    lastCall,    \* sequential calls: [name, ret] of the last call
    savedLabels, \* every <<label, cls_id>> written to a .toon label file
    saves,       \* number of annotation saves so far
    \* ---- tiling (utils/image.py, dataset_service.py) ----
    imgH,        \* img_h
    imgW,        \* img_w
    tileSize,    \* tile_size
    overlap,     \* overlap, in quarters: the ratio is overlap/4
    slices,      \* get_slices result: [called, raised, tiles]
    polygons,    \* the image's label list: sequence of polygons
    mode,        \* [path, resize]: _process_tiled or _sandbox_tiled, target_resize
    sIdx,        \* s_idx: number of tiles the loop has gone through
    written,     \* label files written so far: tile index -> fragments
    pstate,      \* "idle", "tiles" (inside the loop), "done", "failed" (raised)
    \* ---- tiled inference (inference_service.py) ----
    nmsThreshold,    \* detect_all's nms_threshold argument, in percent
    maxDet,          \* detect_all's max_det argument
    dIdx,            \* number of tiles passed to the detector so far
    allDetections,   \* all_detections
    finalDetections, \* the list detect_all returns
    remerged,        \* [called, dets]: the merge applied to the returned list
                     \* concatenated with itself
    dstate,          \* "idle", "tiles", "done", "failed"
    \* ---- multi-project class remap (dataset_service.py) ----
    projectFiles,    \* per project: the lines of raw_data/classes.txt
    allClasses,      \* all_classes: the unified class list
    projectRemaps,   \* project_remaps: per project {old_id: new_id}
    stagedLabels,    \* per project handled by step 3: [pid, src, out], the class
                     \* ids of its label file and of the staged label file
    rstate,          \* "idle", "built"
    \* ---- polygon splitting (geometry_service.py) ----
    targetBox,       \* target_points: the rectangle <<x1, y1, x2, y2>> with the
                     \* vertices (x1,y1), (x2,y1), (x2,y2), (x1,y2)
    cutterPoints,    \* cutter_points: sequence of points <<x, y>>
    minArea,         \* min_area
    splitRaises,     \* shapely's split raises on this input (numerical failure)
    splitResult,     \* split_result: the polygon pieces of the split, or of
                     \* the buffer difference when the split raised
    finalPolys,      \* final_polys: the fragments split_polygon returns
    sstate,          \* "idle", "done", "failed" (raised)
    \* ---- training, api/v1/endpoints/training.py ----
    v1Status,        \* _training_status: [is_training, stop_requested]
    v1Req,           \* per POST /train-model request: "new", "rejected",
                     \* "invalid", "accepted" (background task added),
                     \* "running", "resetting" (inside finally), "finished"
    v1Cancel,        \* POST /cancel-training: "idle", "checked" (is_training
                     \* read as true), "accepted", "refused"
    \* ---- training, services/training_service.py ----
    trainingStatus,  \* _training_status: [is_training, stop_requested, message]
    runPc,           \* per run_training_task call: "idle", "running",
                     \* "finally", "resetting", "done"
    stopPc,          \* request_stop: "idle", "checked", "messaging", "true",
                     \* "false" (the last two: returned that value)
    \* ---- task records, api/endpoints/training.py, task_service.py ----
    posts,           \* number of POST /train-model requests so far
    taskDb,          \* per task id: "absent" or the status column of its row
    bgJobs,          \* per task id: "none", "queued" (background task
                     \* added), "raised" (the call ended with an exception)
    reported         \* per task id: what the last GET /tasks/{id} returned

annVars == <<savedLabels, saves>>

regVars == <<file, classesTxt, pc, arg, registry, newId, ret, fresh, calls,
             returned, lastCall, annVars>>

tileVars == <<imgH, imgW, tileSize, overlap, slices, polygons, mode, sIdx,
              written, pstate>>

mergeVars == <<nmsThreshold, maxDet, dIdx, allDetections, finalDetections,
               remerged, dstate>>

remapVars == <<projectFiles, allClasses, projectRemaps, stagedLabels, rstate>>

splitVars == <<targetBox, cutterPoints, minArea, splitRaises, splitResult,
               finalPolys, sstate>>

v1Vars == <<v1Status, v1Req, v1Cancel>>

svcVars == <<trainingStatus, runPc, stopPc>>

taskVars == <<posts, taskDb, bgJobs, reported>>

trainVars == <<v1Vars, svcVars, taskVars>>

vars == <<regVars, tileVars, mergeVars, remapVars, splitVars, trainVars>>

notRegVars == <<tileVars, mergeVars, remapVars, splitVars, trainVars>>
notTileVars == <<regVars, mergeVars, remapVars, splitVars, trainVars>>
notMergeVars == <<regVars, polygons, mode, sIdx, written, pstate, remapVars, splitVars,
                  trainVars>>
notRemapVars == <<regVars, tileVars, mergeVars, splitVars, trainVars>>
notSplitVars == <<regVars, tileVars, mergeVars, remapVars, trainVars>>
notTrainVars == <<regVars, tileVars, mergeVars, remapVars, splitVars>>

----------------------------------------------------------------------------
(* Bounds *)

MaxInitClasses == 2     \* lines of a pre-existing classes.txt
MaxCalls == 3           \* get_or_create_class_id calls per behaviour
MaxSaves == 2           \* annotation saves per behaviour
MaxAnns == 2            \* annotations in one save

Names == {"car", "dog", "cat"}
Callers == {1, 2}

MaxDim == 7             \* get_slices alone: img_h, img_w in 1..MaxDim
MaxTile == 5            \* get_slices alone: tile_size in 1..MaxTile
MaxPolys == 2           \* polygons in one image's label list
MaxDets == 3            \* detections the detector returns for one image
MaxNmsDets == 2         \* boxes passed to safe_nms on its own
MaxClasses == 2         \* lines of one project's classes.txt
MaxRequests == 3        \* POST /train-model requests (api/v1) per behaviour
MaxRuns == 2            \* run_training_task calls per behaviour
MaxPosts == 3           \* POST /train-model requests (api) per behaviour

\* Overlap ratios 0, 0.25, 0.5, 0.75 (in quarters): exactly representable, so
\* the float product tile_size * (1 - overlap) is exact.
Overlaps == {0, 1, 2, 3}

----------------------------------------------------------------------------
(* Helpers *)

Max(S) == CHOOSE m \in S : \A x \in S : x <= m

Range(f) == {f[x] : x \in DOMAIN f}

EmptyMap == [n \in {} |-> 0]

SeqsUpTo(S, n) == UNION {[1..k -> S] : k \in 0..n}

----------------------------------------------------------------------------
(* ClassService *)

\* _ensure_registry: initial_map[name] = idx over enumerate(names); a name
\* listed twice keeps its last index.
Migrate(names) ==
    [n \in Range(names) |-> Max({i \in 1..Len(names) : names[i] = n}) - 1]

\* get_registry: the parsed file, or {} when open/json.load raises.
GetRegistry(f) == IF f.ok THEN f.map ELSE EmptyMap

MutNextId(reg) ==
    IF DOMAIN reg # {} THEN Cardinality(DOMAIN reg) ELSE 0

\* get_or_create_class_id, lines 71-74.
NextId(reg) ==
    IF DOMAIN reg # {} THEN Max(Range(reg)) + 1 ELSE 0

\* registry[class_name] = new_id
Put(reg, name, id) ==
    [n \in DOMAIN reg \cup {name} |-> IF n = name THEN id ELSE reg[n]]

\* save_registry: sorted(registry.items(), key=id), names only.
RECURSIVE SortedNames(_, _)
SortedNames(reg, left) ==
    IF left = {} THEN <<>>
    ELSE LET n == CHOOSE a \in left : \A b \in left : reg[a] <= reg[b]
         IN  <<n>> \o SortedNames(reg, left \ {n})

SortedClasses(reg) == SortedNames(reg, DOMAIN reg)

NoCall == [name |-> "", ret |-> -1]

NoSlices == [called |-> FALSE, raised |-> FALSE, tiles |-> <<>>]

NoRemerge == [called |-> FALSE, dets |-> <<>>]

\* No image is being tiled.
TileIdle ==
    /\ imgH = 0 /\ imgW = 0 /\ tileSize = 0 /\ overlap = 0
    /\ slices = NoSlices
    /\ polygons = <<>>
    /\ mode = [path |-> "none", resize |-> 0]
    /\ sIdx = 0
    /\ written = <<>>
    /\ pstate = "idle"

\* No detection is running.
MergeIdle ==
    /\ nmsThreshold = 0 /\ maxDet = 0 /\ dIdx = 0
    /\ allDetections = <<>>
    /\ finalDetections = <<>>
    /\ remerged = NoRemerge
    /\ dstate = "idle"

\* No training job is being prepared.
RemapIdle ==
    /\ projectFiles = <<>>
    /\ allClasses = <<>>
    /\ projectRemaps = <<>>
    /\ stagedLabels = <<>>
    /\ rstate = "idle"

\* No polygon is being split.
SplitIdle ==
    /\ targetBox = <<0, 0, 0, 0>>
    /\ cutterPoints = <<>>
    /\ minArea = 0
    /\ splitRaises = FALSE
    /\ splitResult = <<>>
    /\ finalPolys = <<>>
    /\ sstate = "idle"

\* api/v1 training: TrainingStatus() defaults, no request yet.
V1Idle ==
    /\ v1Status = [is_training |-> FALSE, stop_requested |-> FALSE]
    /\ v1Req = [r \in 1..MaxRequests |-> "new"]
    /\ v1Cancel = "idle"

\* TrainingStatus.__init__, no call yet.
SvcIdle ==
    /\ trainingStatus = [is_training |-> FALSE, stop_requested |-> FALSE,
                         message |-> "Idle"]
    /\ runPc = [t \in 1..MaxRuns |-> "idle"]
    /\ stopPc = "idle"

\* No task row, no background task.
TasksIdle ==
    /\ posts = 0
    /\ taskDb = [t \in 1..MaxPosts |-> "absent"]
    /\ bgJobs = [t \in 1..MaxPosts |-> "none"]
    /\ reported = [t \in 1..MaxPosts |-> "none"]

TrainIdle == V1Idle /\ SvcIdle /\ TasksIdle

InitReg ==
    /\ TrainIdle
    /\ TileIdle
    /\ SplitIdle
    /\ MergeIdle
    /\ RemapIdle
    /\ \E names \in SeqsUpTo(Names, MaxInitClasses) :
          /\ file = [ok |-> TRUE, map |-> Migrate(names)]
          /\ classesTxt = names
    /\ pc = [t \in Callers |-> "idle"]
    /\ arg = [t \in Callers |-> ""]
    /\ registry = [t \in Callers |-> EmptyMap]
    /\ newId = [t \in Callers |-> -1]
    /\ ret = [t \in Callers |-> -1]
    /\ fresh = [t \in Callers |-> FALSE]
    /\ calls = 0
    /\ returned = {}
    /\ lastCall = NoCall
    /\ savedLabels = {}
    /\ saves = 0

\* A caller enters get_or_create_class_id(class_name).
Call(t, name) ==
    /\ pc[t] \in {"idle", "done"}
    /\ calls < MaxCalls
    /\ calls' = calls + 1
    /\ pc' = [pc EXCEPT ![t] = "read"]
    /\ arg' = [arg EXCEPT ![t] = name]
    /\ fresh' = [fresh EXCEPT ![t] = ~(file.ok /\ name \in DOMAIN file.map)]
    /\ UNCHANGED <<file, classesTxt, registry, newId, ret, returned, lastCall>>
    /\ UNCHANGED annVars
    /\ UNCHANGED notRegVars

\* registry = self.get_registry(); if class_name in registry: return it.
ReadRegistry(t) ==
    /\ pc[t] = "read"
    /\ LET reg == GetRegistry(file) IN
         /\ registry' = [registry EXCEPT ![t] = reg]
         /\ IF arg[t] \in DOMAIN reg
            THEN /\ pc' = [pc EXCEPT ![t] = "done"]
                 /\ ret' = [ret EXCEPT ![t] = reg[arg[t]]]
                 /\ returned' = returned \cup {<<arg[t], reg[arg[t]]>>}
            ELSE /\ pc' = [pc EXCEPT ![t] = "compute"]
                 /\ UNCHANGED <<ret, returned>>
    /\ UNCHANGED <<file, classesTxt, arg, newId, fresh, calls, lastCall>>
    /\ UNCHANGED annVars
    /\ UNCHANGED notRegVars

\* new_id = max(registry.values()) + 1 or 0; registry[class_name] = new_id.
ComputeNextId(t) ==
    /\ pc[t] = "compute"
    /\ newId' = [newId EXCEPT ![t] = NextId(registry[t])]
    /\ registry' = [registry EXCEPT ![t] = Put(registry[t], arg[t], NextId(registry[t]))]
    /\ pc' = [pc EXCEPT ![t] = "open"]
    /\ UNCHANGED <<file, classesTxt, arg, ret, fresh, calls, returned, lastCall>>
    /\ UNCHANGED annVars
    /\ UNCHANGED notRegVars

\* save_registry: open(registry_file, "w") truncates the file; until the dump
\* is complete a reader's json.load fails.
OpenRegistryFile(t) ==
    /\ pc[t] = "open"
    /\ file' = [ok |-> FALSE, map |-> EmptyMap]
    /\ pc' = [pc EXCEPT ![t] = "dump"]
    /\ UNCHANGED <<classesTxt, arg, registry, newId, ret, fresh, calls, returned, lastCall>>
    /\ UNCHANGED annVars
    /\ UNCHANGED notRegVars

\* save_registry: json.dump(registry, f) and close.
WriteRegistry(t) ==
    /\ pc[t] = "dump"
    /\ file' = [ok |-> TRUE, map |-> registry[t]]
    /\ pc' = [pc EXCEPT ![t] = "sync"]
    /\ UNCHANGED <<classesTxt, arg, registry, newId, ret, fresh, calls, returned, lastCall>>
    /\ UNCHANGED annVars
    /\ UNCHANGED notRegVars

\* save_registry: rewrite classes.txt; then return new_id.
SyncClassesTxt(t) ==
    /\ pc[t] = "sync"
    /\ classesTxt' = SortedClasses(registry[t])
    /\ ret' = [ret EXCEPT ![t] = newId[t]]
    /\ returned' = returned \cup {<<arg[t], newId[t]>>}
    /\ pc' = [pc EXCEPT ![t] = "done"]
    /\ UNCHANGED <<file, arg, registry, newId, fresh, calls, lastCall>>
    /\ UNCHANGED annVars
    /\ UNCHANGED notRegVars

NextReg ==
    \E t \in Callers :
        \/ \E name \in Names : Call(t, name)
        \/ ReadRegistry(t)
        \/ ComputeNextId(t)
        \/ OpenRegistryFile(t)
        \/ WriteRegistry(t)
        \/ SyncClassesTxt(t)

SpecReg == InitReg /\ [][NextReg]_vars

----------------------------------------------------------------------------
(* Sequential use of the registry *)

\* One whole get_or_create_class_id call with no other caller active.
GetOrCreateClassId(name) ==
    /\ calls < MaxCalls
    /\ calls' = calls + 1
    /\ LET reg == GetRegistry(file) IN
         IF name \in DOMAIN reg
         THEN /\ UNCHANGED <<file, classesTxt>>
              /\ returned' = returned \cup {<<name, reg[name]>>}
              /\ lastCall' = [name |-> name, ret |-> reg[name]]
         ELSE LET new_id == NextId(reg)
                  reg2 == Put(reg, name, new_id)
              IN  /\ file' = [ok |-> TRUE, map |-> reg2]
                  /\ classesTxt' = SortedClasses(reg2)
                  /\ returned' = returned \cup {<<name, new_id>>}
                  /\ lastCall' = [name |-> name, ret |-> new_id]
    /\ UNCHANGED <<pc, arg, registry, newId, ret, fresh>>
    /\ UNCHANGED annVars
    /\ UNCHANGED notRegVars

\* The registry file is damaged from outside (partial write, disk error,
\* manual edit): the next json.load raises.
CorruptFile ==
    /\ file.ok
    /\ file' = [ok |-> FALSE, map |-> EmptyMap]
    /\ UNCHANGED <<classesTxt, pc, arg, registry, newId, ret, fresh, calls,
                   returned, lastCall>>
    /\ UNCHANGED annVars
    /\ UNCHANGED notRegVars

\* _load_class_map: {name: i for i, name in enumerate(classes)}; a name listed
\* twice keeps its last index.
LoadClassMap(lines) ==
    [n \in Range(lines) |-> Max({i \in 1..Len(lines) : lines[i] = n}) - 1]

\* Labels an annotation may carry: registered names, a name with surrounding
\* whitespace and the empty string.
AnnLabels == Names \cup {" car", ""}

\* str.strip() on the labels above.
StripLabel(label) == IF label = " car" THEN "car" ELSE label

\* _append_class: f.write("\n" + label).  Readers of classes.txt strip each
\* line and drop blank ones, so the new line reads back as StripLabel(label), or
\* not at all when that is empty.
AppendClass(txt, label) ==
    IF StripLabel(label) = "" THEN txt ELSE Append(txt, StripLabel(label))

\* _save_toon_pair_from_anns, lines 258-268: the loop over annotations, on
\* st = [map, txt, out]: the local class_map, classes.txt and toon_data_list.
RECURSIVE AssignLabels(_, _)
AssignLabels(st, labels) ==
    IF labels = <<>> THEN st
    ELSE LET label == Head(labels)
             known == label \in DOMAIN st.map
             map2  == IF known THEN st.map
                      ELSE Put(st.map, label, Cardinality(DOMAIN st.map))
             txt2  == IF known THEN st.txt ELSE AppendClass(st.txt, label)
         IN  AssignLabels([map |-> map2, txt |-> txt2,
                           out |-> Append(st.out, <<label, map2[label]>>)],
                          Tail(labels))

\* DatasetService.save_annotation without augmentations: one call of
\* _save_toon_pair_from_anns.  root_dir falls back to DATASET_DIR, whose
\* classes.txt is the file save_registry rewrites.
SaveAnnotation(labels) ==
    /\ saves < MaxSaves
    /\ saves' = saves + 1
    /\ LET st == AssignLabels([map |-> LoadClassMap(classesTxt),
                               txt |-> classesTxt, out |-> <<>>], labels)
       IN  /\ classesTxt' = st.txt
           /\ savedLabels' = savedLabels \cup Range(st.out)
    /\ UNCHANGED <<file, pc, arg, registry, newId, ret, fresh, calls,
                   returned, lastCall>>
    /\ UNCHANGED notRegVars

NextRegSeq ==
    \/ \E name \in Names : GetOrCreateClassId(name)
    \/ CorruptFile

SpecRegSeq == InitReg /\ [][NextRegSeq]_vars

\* Registrations and annotation saves, one after another.
NextAnnotate ==
    \/ \E name \in Names : GetOrCreateClassId(name)
    \/ \E labels \in SeqsUpTo(AnnLabels, MaxAnns) : SaveAnnotation(labels)

SpecAnnotate == InitReg /\ [][NextAnnotate]_vars

----------------------------------------------------------------------------
(* get_slices (utils/image.py) *)

Min2(a, b) == IF a <= b THEN a ELSE b
Max2(a, b) == IF a >= b THEN a ELSE b

\* stride = int(tile_size * (1 - overlap))
Stride(T, ov) == (T * (4 - ov)) \div 4

MutTileAt(x, y, h, w, T) ==
    <<x, y, Min2(x + T, w), Min2(y + T, h)>>

\* Lines 57-62: clamp the far edge to the image, then back-compute the start.
TileAt(x, y, h, w, T) ==
    LET x2 == Min2(x + T, w)
        y2 == Min2(y + T, h)
    IN  <<Max2(0, x2 - T), Max2(0, y2 - T), x2, y2>>

\* Inner loop, lines 56-67: for x in range(0, img_w, stride), break once x2 >= img_w.
RECURSIVE SliceRow(_, _, _, _, _, _)
SliceRow(x, y, h, w, T, stride) ==
    IF x >= w THEN <<>>
    ELSE LET t == TileAt(x, y, h, w, T)
         IN  <<t>> \o (IF t[3] >= w THEN <<>>
                       ELSE SliceRow(x + stride, y, h, w, T, stride))

MutSliceRows(y, h, w, T, stride) ==
    SliceRow(0, y, h, w, T, stride) \o SliceRow(0, y, h, w, T, stride)

\* Outer loop, lines 55-69: for y in range(0, img_h, stride), break once y2 >= img_h.
RECURSIVE SliceRows(_, _, _, _, _)
SliceRows(y, h, w, T, stride) ==
    IF y >= h THEN <<>>
    ELSE SliceRow(0, y, h, w, T, stride)
         \o (IF Min2(y + T, h) >= h THEN <<>>
             ELSE SliceRows(y + stride, h, w, T, stride))

\* get_slices.  range(0, n, 0) raises ValueError: no list is returned.
GetSlices(h, w, T, ov) ==
    IF w <= T /\ h <= T
    THEN [called |-> TRUE, raised |-> FALSE, tiles |-> << <<0, 0, w, h>> >>]
    ELSE IF Stride(T, ov) = 0
         THEN [called |-> TRUE, raised |-> TRUE, tiles |-> <<>>]
         ELSE [called |-> TRUE, raised |-> FALSE, tiles |-> SliceRows(0, h, w, T, Stride(T, ov))]

\* Registry at rest while an image is tiled.
RegIdle ==
    /\ file = [ok |-> TRUE, map |-> EmptyMap]
    /\ classesTxt = <<>>
    /\ pc = [t \in Callers |-> "idle"]
    /\ arg = [t \in Callers |-> ""]
    /\ registry = [t \in Callers |-> EmptyMap]
    /\ newId = [t \in Callers |-> -1]
    /\ ret = [t \in Callers |-> -1]
    /\ fresh = [t \in Callers |-> FALSE]
    /\ calls = 0
    /\ returned = {}
    /\ lastCall = NoCall
    /\ savedLabels = {}
    /\ saves = 0

InitSlices ==
    /\ TrainIdle
    /\ RegIdle
    /\ SplitIdle
    /\ MergeIdle
    /\ RemapIdle
    /\ imgH \in 1..MaxDim
    /\ imgW \in 1..MaxDim
    /\ tileSize \in 1..MaxTile
    /\ overlap \in Overlaps
    /\ slices = NoSlices
    /\ polygons = <<>>
    /\ mode = [path |-> "none", resize |-> 0]
    /\ sIdx = 0
    /\ written = <<>>
    /\ pstate = "idle"

\* slices = get_slices(img_h, img_w, tile_size, overlap)
CallGetSlices ==
    /\ ~slices.called
    /\ slices' = GetSlices(imgH, imgW, tileSize, overlap)
    /\ UNCHANGED <<imgH, imgW, tileSize, overlap, polygons, mode, sIdx, written, pstate>>
    /\ UNCHANGED notTileVars

NextSlices == CallGetSlices

SpecSlices == InitSlices /\ [][NextSlices]_vars

----------------------------------------------------------------------------
(* Claims about get_slices *)

TileList == slices.tiles

Covered(x, y) ==
    \E i \in 1..Len(TileList) :
        /\ TileList[i][1] <= x /\ x < TileList[i][3]
        /\ TileList[i][2] <= y /\ y < TileList[i][4]

\* C2: for every H, W >= 1, T > 0 and overlap in [0,1) the tiles returned by
\* get_slices cover every pixel of the image and none extends outside it.
C2_TilesCoverImage ==
    slices.called =>
        /\ \A x \in 0..(imgW - 1), y \in 0..(imgH - 1) : Covered(x, y)
        /\ \A i \in 1..Len(TileList) :
              /\ 0 <= TileList[i][1] /\ TileList[i][3] <= imgW
              /\ 0 <= TileList[i][2] /\ TileList[i][4] <= imgH

\* Coverage whenever get_slices returns a list (stride >= 1 or a single tile).
CoverageWhenReturned ==
    (slices.called /\ ~slices.raised) => C2_TilesCoverImage

C22_ReturnsNonEmptyList ==
    slices.called => (~slices.raised /\ Len(slices.tiles) >= 1)

\* With a stride of at least 1, or an image that fits one tile, get_slices
\* returns a non-empty list.
ReturnsWhenStridePositive ==
    ( /\ slices.called
      /\ (Stride(tileSize, overlap) >= 1 \/ (imgW <= tileSize /\ imgH <= tileSize)) )
    => (~slices.raised /\ Len(slices.tiles) >= 1)

\* <<y1, x1>> of tile a precedes that of tile b.
RowMajorBefore(a, b) == a[2] < b[2] \/ (a[2] = b[2] /\ a[1] < b[1])

\* C23: the list get_slices returns is determined by (H, W, T, overlap) and
\* is strictly increasing in (y1, x1) lexicographic order: rows top to
\* bottom, tiles of a row left to right, no rectangle twice.
C23_RowMajorOrder ==
    slices.called =>
        /\ slices = GetSlices(imgH, imgW, tileSize, overlap)
        /\ \A i \in 1..Len(TileList), j \in 1..Len(TileList) :
              i < j => /\ RowMajorBefore(TileList[i], TileList[j])
                       /\ TileList[i] # TileList[j]

\* C23 witness: an image sliced into at least two rows of at least two
\* tiles, the last tile shifted back in both directions.
C23_Witness ==
    /\ slices.called
    /\ Len(TileList) >= 4
    /\ imgW > tileSize /\ imgH > tileSize
    /\ (imgW - tileSize) % Stride(tileSize, overlap) # 0
    /\ (imgH - tileSize) % Stride(tileSize, overlap) # 0
    /\ TileList[Len(TileList)] = <<imgW - tileSize, imgH - tileSize, imgW, imgH>>

----------------------------------------------------------------------------
(* Tiled preprocessing: DatasetService._process_tiled / _sandbox_tiled *)

MinTileDim == 10        \* tiles narrower or shorter than this are skipped
MinArea == 10           \* minimum fragment area (px^2) of the geometry service

\* Image sizes <<h, w>> and tile sizes large enough for tiles not to be skipped.
ImageSizes == {<<h, w>> : h \in {8, 10, 20}, w \in {10, 20, 25}}
TileSizes == {10, 20}

\* Polygons are axis-parallel rectangles with corners on these pixel
\* coordinates (their intersection with a tile is computed exactly), or label
\* lines from which no polygon can be built.
PolyXs == {1, 9, 12, 18}
PolyYs == {2, 8}

Rects(h, w) ==
    {<<x1, y1, x2, y2>> : x1 \in PolyXs, y1 \in PolyYs, x2 \in PolyXs, y2 \in PolyYs}
    \cap {r \in (0..w) \X (0..h) \X (0..w) \X (0..h) : r[1] < r[3] /\ r[2] < r[4]}

\* kind "rect":     a valid polygon
\* kind "short":    fewer than three points (or an odd number of coordinates):
\*                  ShapelyPolygon(abs_coords) / coords[k+1] raises
\* kind "clipfail": tile_box.intersection(poly_shape) raises
Polys(h, w) ==
    {[cls |-> 0, kind |-> "rect", box |-> r] : r \in Rects(h, w)}
    \cup {[cls |-> 1, kind |-> "short", box |-> <<0, 0, 0, 0>>]}
    \cup {[cls |-> 1, kind |-> "clipfail", box |-> <<1, 2, 9, 8>>]}

Modes == {[path |-> p, resize |-> r] : p \in {"process", "sandbox"}, r \in {0, 640}}

Area(b) == (b[3] - b[1]) * (b[4] - b[2])

\* min(max(n/d, 0), 1) as a fraction [n, d]
Clamp01(n, d) == [n |-> Min2(Max2(n, 0), d), d |-> d]

MutNormDims(tile, m) ==
    IF m.resize # 0
    THEN <<m.resize, m.resize>>
    ELSE <<tile[3] - tile[1], tile[4] - tile[2]>>

\* The divisors of the normalisation: tw, th in _process_tiled (taken before
\* the resize), tile_img.shape in _sandbox_tiled (taken after it).
NormDims(tile, m) ==
    IF m.path = "sandbox" /\ m.resize # 0
    THEN <<m.resize, m.resize>>
    ELSE <<tile[3] - tile[1], tile[4] - tile[2]>>

MutClipFragments(i, poly, tile, m) ==
    IF poly.kind # "rect" THEN <<>>
    ELSE LET gx1 == Max2(tile[1], poly.box[1])
             gy1 == Max2(tile[2], poly.box[2])
             gx2 == poly.box[3]
             gy2 == Min2(tile[4], poly.box[4])
             nd  == NormDims(tile, m)
         IN  IF gx1 < gx2 /\ gy1 < gy2
             THEN << [cls |-> poly.cls, src |-> i, box |-> <<gx1, gy1, gx2, gy2>>,
                      coords |-> << Clamp01(gx1 - tile[1], nd[1]),
                                    Clamp01(gy1 - tile[2], nd[2]),
                                    Clamp01(gx2 - tile[1], nd[1]),
                                    Clamp01(gy2 - tile[2], nd[2]) >>] >>
             ELSE <<>>

\* tile_box.intersection(poly_shape) and the loop over its Polygon members:
\* a rectangle meets the tile in a rectangle of positive area (one Polygon,
\* four vertices), in a segment or point (no Polygon member), or not at all.
ClipFragments(i, poly, tile, m) ==
    IF poly.kind # "rect" THEN <<>>
    ELSE LET gx1 == Max2(tile[1], poly.box[1])
             gy1 == Max2(tile[2], poly.box[2])
             gx2 == Min2(tile[3], poly.box[3])
             gy2 == Min2(tile[4], poly.box[4])
             nd  == NormDims(tile, m)
         IN  IF gx1 < gx2 /\ gy1 < gy2
             THEN << [cls |-> poly.cls, src |-> i, box |-> <<gx1, gy1, gx2, gy2>>,
                      coords |-> << Clamp01(gx1 - tile[1], nd[1]),
                                    Clamp01(gy1 - tile[2], nd[2]),
                                    Clamp01(gx2 - tile[1], nd[1]),
                                    Clamp01(gy2 - tile[2], nd[2]) >>] >>
             ELSE <<>>

\* for cls_id, coords in polygons: ... tile_polygons.append(...)
RECURSIVE TilePolygons(_, _, _, _)
TilePolygons(i, polys, tile, m) ==
    IF i > Len(polys) THEN <<>>
    ELSE ClipFragments(i, polys[i], tile, m) \o TilePolygons(i + 1, polys, tile, m)

\* Building the polygon happens before the try block (lines 503-509, 906-907).
ConstructionRaises(polys) == \E i \in 1..Len(polys) : polys[i].kind = "short"

TileSkipped(tile) ==
    (tile[4] - tile[2]) < MinTileDim \/ (tile[3] - tile[1]) < MinTileDim

InitTiled ==
    /\ TrainIdle
    /\ RegIdle
    /\ SplitIdle
    /\ MergeIdle
    /\ RemapIdle
    /\ \E sz \in ImageSizes :
          /\ imgH = sz[1]
          /\ imgW = sz[2]
          /\ polygons \in SeqsUpTo(Polys(sz[1], sz[2]), MaxPolys)
    /\ tileSize \in TileSizes
    /\ overlap \in {0, 2}
    /\ mode \in Modes
    /\ slices = NoSlices
    /\ sIdx = 0
    /\ written = <<>>
    /\ pstate = "idle"

\* slices = get_slices(h, w, tile_size, overlap); an exception leaves the method.
StartTiling ==
    /\ pstate = "idle"
    /\ ~slices.called
    /\ slices' = GetSlices(imgH, imgW, tileSize, overlap)
    /\ pstate' = IF slices'.raised THEN "failed" ELSE "tiles"
    /\ UNCHANGED <<imgH, imgW, tileSize, overlap, polygons, mode, sIdx, written>>
    /\ UNCHANGED notTileVars

\* One iteration of the loop over enumerate(slices).
ProcessTile ==
    /\ pstate = "tiles"
    /\ sIdx < Len(slices.tiles)
    /\ LET tile == slices.tiles[sIdx + 1]
           frags == TilePolygons(1, polygons, tile, mode)
       IN  IF TileSkipped(tile)
           THEN /\ sIdx' = sIdx + 1
                /\ UNCHANGED <<written, pstate>>
           ELSE IF ConstructionRaises(polygons)
                THEN /\ pstate' = "failed"
                     /\ UNCHANGED <<written, sIdx>>
                ELSE /\ sIdx' = sIdx + 1
                     /\ written' = IF frags # <<>> THEN written @@ (sIdx :> frags)
                                   ELSE written
                     /\ UNCHANGED pstate
    /\ UNCHANGED <<imgH, imgW, tileSize, overlap, slices, polygons, mode>>
    /\ UNCHANGED notTileVars

\* The loop is exhausted: the method returns.
FinishTiling ==
    /\ pstate = "tiles"
    /\ sIdx = Len(slices.tiles)
    /\ pstate' = "done"
    /\ UNCHANGED <<imgH, imgW, tileSize, overlap, slices, polygons, mode, sIdx, written>>
    /\ UNCHANGED notTileVars

NextTiled == StartTiling \/ ProcessTile \/ FinishTiling

SpecTiled == InitTiled /\ [][NextTiled]_vars

----------------------------------------------------------------------------
(* Claims about tiled preprocessing *)

RECURSIVE SumAreas(_, _)
SumAreas(frags, i) ==
    IF frags = <<>> THEN 0
    ELSE (IF Head(frags).src = i THEN Area(Head(frags).box) ELSE 0)
         + SumAreas(Tail(frags), i)

RECURSIVE SumOverTiles(_, _)
SumOverTiles(idxs, i) ==
    IF idxs = {} THEN 0
    ELSE LET k == CHOOSE k \in idxs : TRUE
         IN  SumAreas(written[k], i) + SumOverTiles(idxs \ {k}, i)

\* Sum over all tiles of the areas of the fragments written for polygon i.
FragmentArea(i) == SumOverTiles(DOMAIN written, i)

InsideImage(poly) ==
    /\ 0 <= poly.box[1] /\ poly.box[3] <= imgW
    /\ 0 <= poly.box[2] /\ poly.box[4] <= imgH

\* C7 as stated: with overlap 0, for any image size and tile size, the
\* fragment areas of a polygon inside the image add up to the polygon's area.
C7_AreaConserved ==
    (pstate = "done" /\ overlap = 0) =>
        \A i \in 1..Len(polygons) :
            (polygons[i].kind = "rect" /\ InsideImage(polygons[i]))
            => FragmentArea(i) = Area(polygons[i].box)

\* The tiles of overlap 0 do not overlap each other: each image dimension is
\* at most T or a multiple of T.
TilesDisjoint ==
    /\ (imgW <= tileSize \/ imgW % tileSize = 0)
    /\ (imgH <= tileSize \/ imgH % tileSize = 0)

\* No tile is skipped as degenerate.
NoTileSkipped ==
    /\ Min2(tileSize, imgW) >= MinTileDim
    /\ Min2(tileSize, imgH) >= MinTileDim

\* C7 amended: with overlap 0, when each image dimension is at most T or a
\* multiple of T and no tile is below the 10 px minimum, the fragment areas
\* of a polygon inside the image add up to the polygon's area.
C7_AreaConservedDisjointTiles ==
    (pstate = "done" /\ overlap = 0 /\ TilesDisjoint /\ NoTileSkipped) =>
        \A i \in 1..Len(polygons) :
            (polygons[i].kind = "rect" /\ InsideImage(polygons[i]))
            => FragmentArea(i) = Area(polygons[i].box)

\* C7 witness: a polygon crossing a tile seam was written as fragments of two
\* tiles.
C7_Witness ==
    /\ pstate = "done" /\ overlap = 0 /\ TilesDisjoint /\ NoTileSkipped
    /\ Cardinality(DOMAIN written) >= 2
    /\ \E i \in 1..Len(polygons) :
          /\ polygons[i].kind = "rect"
          /\ \E k \in DOMAIN written :
                /\ SumAreas(written[k], i) > 0
                /\ SumAreas(written[k], i) < Area(polygons[i].box)

\* C8: no fragment written by the clipper has area below the minimum
\* threshold.
C8_NoSubThresholdFragment ==
    \A k \in DOMAIN written :
        \A j \in 1..Len(written[k]) : Area(written[k][j].box) >= MinArea

\* C9: a polygon that fails is the only one skipped: once the image has been
\* handled, every valid polygon has its fragment in every tile it overlaps.
C9_OnlyFailingPolygonSkipped ==
    (pstate \in {"done", "failed"} /\ ~slices.raised) =>
        \A k \in 1..Len(slices.tiles) :
            \A i \in 1..Len(polygons) :
                ( /\ ~TileSkipped(slices.tiles[k])
                  /\ ClipFragments(i, polygons[i], slices.tiles[k], mode) # <<>> )
                => /\ (k - 1) \in DOMAIN written
                   /\ \E j \in 1..Len(written[k - 1]) : written[k - 1][j].src = i

\* A failure inside the try block (the intersection) skips only that polygon.
ClipFailureIsolated ==
    (pstate \in {"done", "failed"} /\ ~ConstructionRaises(polygons))
        => C9_OnlyFailingPolygonSkipped

\* The polygon lies entirely within the tile.
WithinTile(poly, tile) ==
    /\ tile[1] <= poly.box[1] /\ poly.box[3] <= tile[3]
    /\ tile[2] <= poly.box[2] /\ poly.box[4] <= tile[4]

\* The normalised coordinate c = n/d, multiplied by the tile extent and added
\* to the tile origin, is the pixel coordinate g.
MapsBackTo(c, extent, origin, g) == c.n * extent = (g - origin) * c.d

\* The fragment's vertices, mapped back to global pixels, are the polygon's.
FragmentMapsBack(frag, poly, tile) ==
    /\ MapsBackTo(frag.coords[1], tile[3] - tile[1], tile[1], poly.box[1])
    /\ MapsBackTo(frag.coords[2], tile[4] - tile[2], tile[2], poly.box[2])
    /\ MapsBackTo(frag.coords[3], tile[3] - tile[1], tile[1], poly.box[3])
    /\ MapsBackTo(frag.coords[4], tile[4] - tile[2], tile[2], poly.box[4])

\* C18: in _process_tiled with overlap 0, a polygon lying entirely within a
\* tile has exactly one fragment in that tile's labels, and that fragment's
\* tile-local normalised vertices, multiplied by the tile extent and added to
\* the tile origin, are the polygon's vertices.
C18_ClipRoundTrip ==
    (pstate = "done" /\ overlap = 0 /\ mode.path = "process") =>
        \A k \in 1..Len(slices.tiles), i \in 1..Len(polygons) :
            ( /\ polygons[i].kind = "rect"
              /\ WithinTile(polygons[i], slices.tiles[k])
              /\ ~TileSkipped(slices.tiles[k]) )
            => /\ (k - 1) \in DOMAIN written
               /\ Cardinality({j \in 1..Len(written[k - 1]) :
                                  written[k - 1][j].src = i}) = 1
               /\ \A j \in 1..Len(written[k - 1]) :
                     written[k - 1][j].src = i
                     => FragmentMapsBack(written[k - 1][j], polygons[i],
                                         slices.tiles[k])

\* C18 witness: a polygon inside a tile that does not start at the image
\* origin was clipped by _process_tiled, the tile being resized afterwards.
C18_Witness ==
    /\ pstate = "done" /\ overlap = 0 /\ mode.path = "process"
    /\ mode.resize # 0
    /\ \E k \in 1..Len(slices.tiles), i \in 1..Len(polygons) :
          /\ slices.tiles[k][1] > 0
          /\ polygons[i].kind = "rect"
          /\ WithinTile(polygons[i], slices.tiles[k])
          /\ (k - 1) \in DOMAIN written
          /\ \E j \in 1..Len(written[k - 1]) : written[k - 1][j].src = i

\* The fractions a and b are the same number.
SameNumber(a, b) == a.n * b.d = b.n * a.d

\* The labels of tile k are the fragments of the polygons clipped to the
\* tile, every vertex coordinate being (g - origin) / tile extent clamped to
\* [0,1].
NormalisedByTileExtent(k) ==
    LET tile == slices.tiles[k + 1]
        ref  == TilePolygons(1, polygons, tile, [path |-> "process", resize |-> mode.resize])
    IN  /\ Len(written[k]) = Len(ref)
        /\ \A j \in 1..Len(ref) :
              /\ written[k][j].cls = ref[j].cls
              /\ written[k][j].src = ref[j].src
              /\ \A c \in 1..4 :
                    /\ SameNumber(written[k][j].coords[c], ref[j].coords[c])
                    /\ SameNumber(written[k][j].coords[c],
                                  Clamp01(ref[j].box[c] - tile[IF c \in {1, 3} THEN 1 ELSE 2],
                                          IF c \in {1, 3} THEN tile[3] - tile[1]
                                          ELSE tile[4] - tile[2]))

\* C25: _sandbox_tiled and _process_tiled emit the same per-tile labels for
\* the same image, polygons, tile size, overlap and resize target: in both,
\* each vertex is normalised by the extent of the tile rectangle itself,
\* also when a resize target is set.
C25_SandboxMatchesLegacy ==
    pstate = "done" => \A k \in DOMAIN written : NormalisedByTileExtent(k)

\* Without a resize target the two paths emit the same labels.
SandboxMatchesLegacyWithoutResize ==
    (pstate = "done" /\ mode.resize = 0) =>
        \A k \in DOMAIN written : NormalisedByTileExtent(k)

\* _process_tiled normalises by the tile extent with and without resize.
LegacyNormalisedByTileExtent ==
    (pstate = "done" /\ mode.path = "process") =>
        \A k \in DOMAIN written : NormalisedByTileExtent(k)

----------------------------------------------------------------------------
(* Tiled inference: InferenceService.detect_all, safe_nms *)

GlobalNmsThreshold == 35    \* iou_threshold=0.35 of the global NMS, in percent

\* A detection is [label, conf, box]: conf in percent, box = <<x1, y1, x2, y2>>
\* the bounding box of its points (lines 120-125).
DetImageWidths == {4, 6}
DetTileSize == {4}
LocalBoxes == {<<0, 0, 4, 4>>, <<2, 0, 4, 4>>}
Labels == {"car", "dog"}
Confs == {50, 90}

\* What the detector may return for one tile, in tile-local pixels: at most
\* n detections.
TileResults(n) ==
    SeqsUpTo({[label |-> l, conf |-> c, box |-> b] :
                 l \in Labels, c \in Confs, b \in LocalBoxes}, n)

\* _parse_yolo_result(result, offset=(sx1, sy1)): add the tile origin.
Translate(d, tile) ==
    [label |-> d.label, conf |-> d.conf,
     box |-> <<d.box[1] + tile[1], d.box[2] + tile[2],
               d.box[3] + tile[1], d.box[4] + tile[2]>>]

TranslateAll(ds, tile) == [i \in 1..Len(ds) |-> Translate(ds[i], tile)]

MutInterArea(a, b) ==
    LET w == Min2(a[3], b[3]) - Min2(a[1], b[1])
        h == Min2(a[4], b[4]) - Max2(a[2], b[2])
    IN  IF w > 0 /\ h > 0 THEN w * h ELSE 0

InterArea(a, b) ==
    LET w == Min2(a[3], b[3]) - Max2(a[1], b[1])
        h == Min2(a[4], b[4]) - Max2(a[2], b[2])
    IN  IF w > 0 /\ h > 0 THEN w * h ELSE 0

UnionArea(a, b) == Area(a) + Area(b) - InterArea(a, b)

MutOverlapExceeds(a, b, thr) ==
    a # b /\ InterArea(a, b) * 100 > thr * UnionArea(a, b)

\* cv2.dnn.NMSBoxes: overlap = 1 - jaccardDistance(a, b) > nms_threshold;
\* two boxes of zero area have jaccardDistance 0, that is overlap 1.
OverlapExceeds(a, b, thr) ==
    IF Area(a) + Area(b) = 0 THEN 100 > thr
    ELSE InterArea(a, b) * 100 > thr * UnionArea(a, b)

\* Indices ordered by score descending, ties in index order (stable sort).
RECURSIVE ByScoreDesc(_, _)
ByScoreDesc(dets, left) ==
    IF left = {} THEN <<>>
    ELSE LET i == CHOOSE a \in left : \A b \in left :
                      \/ dets[a].conf > dets[b].conf
                      \/ (dets[a].conf = dets[b].conf /\ a <= b)
         IN  <<i>> \o ByScoreDesc(dets, left \ {i})

MutGreedyKeep(dets, order, kept, thr) == order

MutMergeDetections(all, max_det) == all

\* Greedy pass of NMSBoxes: an index is kept iff its box overlaps no index
\* kept before it by more than the threshold.
RECURSIVE GreedyKeep(_, _, _, _)
GreedyKeep(dets, order, kept, thr) ==
    IF order = <<>> THEN kept
    ELSE LET i == Head(order)
             keep == \A k \in 1..Len(kept) :
                        ~OverlapExceeds(dets[i].box, dets[kept[k]].box, thr)
         IN  GreedyKeep(dets, Tail(order), IF keep THEN Append(kept, i) ELSE kept, thr)

\* safe_nms(boxes, scores, iou_threshold): indices to keep
\* (score_threshold = 0.01 admits every detection of the detector).
SafeNms(dets, thr) ==
    IF dets = <<>> THEN <<>>
    ELSE GreedyKeep(dets, ByScoreDesc(dets, 1..Len(dets)), <<>>, thr)

\* final_detections.sort(key=confidence, reverse=True): stable.
RECURSIVE SortByConf(_)
SortByConf(ds) ==
    IF ds = <<>> THEN <<>>
    ELSE LET i == CHOOSE a \in 1..Len(ds) : \A b \in 1..Len(ds) :
                      \/ ds[a].conf > ds[b].conf
                      \/ (ds[a].conf = ds[b].conf /\ a <= b)
         IN  <<ds[i]>> \o SortByConf(SubSeq(ds, 1, i - 1) \o SubSeq(ds, i + 1, Len(ds)))

\* Lines 109-141: global NMS with the fixed threshold, sort, truncate.
MergeDetections(all, max_det) ==
    IF all = <<>> THEN <<>>
    ELSE LET keep == SafeNms(all, GlobalNmsThreshold)
             final == SortByConf([k \in 1..Len(keep) |-> all[keep[k]]])
         IN  IF Len(final) > max_det THEN SubSeq(final, 1, max_det) ELSE final

InitMerge ==
    /\ TrainIdle
    /\ RegIdle
    /\ SplitIdle
    /\ RemapIdle
    /\ imgH = 4
    /\ imgW \in DetImageWidths
    /\ tileSize \in DetTileSize
    /\ overlap \in {0, 2}
    /\ slices = NoSlices
    /\ polygons = <<>>
    /\ mode = [path |-> "none", resize |-> 0]
    /\ sIdx = 0
    /\ written = <<>>
    /\ pstate = "idle"
    /\ nmsThreshold \in {25, 50}
    /\ maxDet \in {1, 300}
    /\ dIdx = 0
    /\ allDetections = <<>>
    /\ finalDetections = <<>>
    /\ remerged = NoRemerge
    /\ dstate = "idle"

\* slices = get_slices(img_h, img_w, tile_size, tile_overlap)
StartDetect ==
    /\ dstate = "idle"
    /\ ~slices.called
    /\ slices' = GetSlices(imgH, imgW, tileSize, overlap)
    /\ dstate' = IF slices'.raised THEN "failed" ELSE "tiles"
    /\ UNCHANGED <<imgH, imgW, tileSize, overlap>>
    /\ UNCHANGED <<nmsThreshold, maxDet, dIdx, allDetections, finalDetections, remerged>>
    /\ UNCHANGED notMergeVars

\* One iteration of the loop over slices: run the detector on the tile and
\* extend all_detections with its translated detections.  (A tile of
\* get_slices is never empty, so the tile.size == 0 skip is not taken.)
DetectTile ==
    /\ dstate = "tiles"
    /\ dIdx < Len(slices.tiles)
    /\ \E res \in TileResults(MaxDets - Len(allDetections)) :
          allDetections' = allDetections \o TranslateAll(res, slices.tiles[dIdx + 1])
    /\ dIdx' = dIdx + 1
    /\ UNCHANGED <<imgH, imgW, tileSize, overlap, slices>>
    /\ UNCHANGED <<nmsThreshold, maxDet, finalDetections, remerged, dstate>>
    /\ UNCHANGED notMergeVars

MutMergeTiles ==
    /\ dstate = "tiles"
    /\ finalDetections' = MergeDetections(allDetections, maxDet)
    /\ dstate' = "done"
    /\ UNCHANGED <<imgH, imgW, tileSize, overlap, slices>>
    /\ UNCHANGED <<nmsThreshold, maxDet, dIdx, allDetections, remerged>>
    /\ UNCHANGED notMergeVars

\* After the loop: global NMS, sort, truncate, return.
MergeTiles ==
    /\ dstate = "tiles"
    /\ dIdx = Len(slices.tiles)
    /\ finalDetections' = MergeDetections(allDetections, maxDet)
    /\ dstate' = "done"
    /\ UNCHANGED <<imgH, imgW, tileSize, overlap, slices>>
    /\ UNCHANGED <<nmsThreshold, maxDet, dIdx, allDetections, remerged>>
    /\ UNCHANGED notMergeVars

\* The merge of lines 109-141 applied again, to the returned list
\* concatenated with itself.
Remerge ==
    /\ dstate = "done"
    /\ ~remerged.called
    /\ remerged' = [called |-> TRUE,
                    dets |-> MergeDetections(finalDetections \o finalDetections, maxDet)]
    /\ UNCHANGED <<imgH, imgW, tileSize, overlap, slices>>
    /\ UNCHANGED <<nmsThreshold, maxDet, dIdx, allDetections, finalDetections, dstate>>
    /\ UNCHANGED notMergeVars

NextMerge == StartDetect \/ DetectTile \/ MergeTiles \/ Remerge

SpecMerge == InitMerge /\ [][NextMerge]_vars

----------------------------------------------------------------------------
(* safe_nms on its own *)

NmsBoxes == {<<10, 10, 50, 50>>, <<40, 10, 80, 50>>, <<20, 10, 60, 50>>}
NmsConfs == {80, 90}
NmsThresholds == {30, 35}

InitNms ==
    /\ TrainIdle
    /\ RegIdle
    /\ SplitIdle
    /\ TileIdle
    /\ RemapIdle
    /\ nmsThreshold \in NmsThresholds
    /\ maxDet = 300
    /\ dIdx = 0
    /\ allDetections \in SeqsUpTo({[label |-> "car", conf |-> c, box |-> b] :
                                      c \in NmsConfs, b \in NmsBoxes}, MaxNmsDets)
    /\ finalDetections = <<>>
    /\ remerged = NoRemerge
    /\ dstate = "idle"

\* keep_indices = safe_nms(nms_boxes, nms_scores, iou_threshold);
\* final_detections = [all_detections[i] for i in keep_indices]
ApplySafeNms ==
    /\ dstate = "idle"
    /\ LET keep == SafeNms(allDetections, nmsThreshold)
       IN  finalDetections' = [k \in 1..Len(keep) |-> allDetections[keep[k]]]
    /\ dstate' = "done"
    /\ UNCHANGED <<imgH, imgW, tileSize, overlap, slices>>
    /\ UNCHANGED <<nmsThreshold, maxDet, dIdx, allDetections, remerged>>
    /\ UNCHANGED notMergeVars

NextNms == ApplySafeNms

SpecNms == InitNms /\ [][NextNms]_vars

----------------------------------------------------------------------------
(* Claims about safe_nms *)

\* The two detections of the merge example.
ExampleDetections ==
    << [label |-> "car", conf |-> 90, box |-> <<10, 10, 50, 50>>],
       [label |-> "car", conf |-> 80, box |-> <<40, 10, 80, 50>>] >>

\* C15 as stated: merging [10,10,50,50]@0.9 and [40,10,80,50]@0.8 at
\* threshold 0.3 returns only the 0.9 detection.
C15_OnlyMostConfidentSurvives ==
    (dstate = "done" /\ allDetections = ExampleDetections /\ nmsThreshold = 30)
        => finalDetections = <<ExampleDetections[1]>>

\* C15 amended: the two boxes share 400 of 2800 px^2 (IoU 1/7, below 0.3), so
\* merging them at threshold 0.3 returns both, the 0.9 detection first.
C15_BothSurvive ==
    (dstate = "done" /\ allDetections = ExampleDetections /\ nmsThreshold = 30)
        => /\ finalDetections = ExampleDetections
           /\ InterArea(ExampleDetections[1].box, ExampleDetections[2].box) = 400
           /\ UnionArea(ExampleDetections[1].box, ExampleDetections[2].box) = 2800

\* C15 witness: the example has been merged at threshold 0.3.
C15_Witness ==
    /\ dstate = "done"
    /\ allDetections = ExampleDetections
    /\ nmsThreshold = 30
    /\ Len(finalDetections) = 2

----------------------------------------------------------------------------
(* Claims about the tiled merge *)

\* C4: after the tiled merge no two returned detections of the same class
\* have bounding-box IoU greater than the merge threshold.
C4_NoSameClassOverlap ==
    dstate = "done" =>
        \A i \in 1..Len(finalDetections), j \in 1..Len(finalDetections) :
            (i # j /\ finalDetections[i].label = finalDetections[j].label)
            => InterArea(finalDetections[i].box, finalDetections[j].box) * 100
                  <= GlobalNmsThreshold
                     * UnionArea(finalDetections[i].box, finalDetections[j].box)

\* C4 witness: two tiles reported the same object (same class, IoU above the
\* threshold), one of the two was suppressed, and two same-class detections
\* that overlap less were both returned.
C4_Witness ==
    /\ dstate = "done"
    /\ Len(allDetections) = 3
    /\ Len(finalDetections) = 2
    /\ finalDetections[1].label = finalDetections[2].label
    /\ InterArea(finalDetections[1].box, finalDetections[2].box) > 0
    /\ \E i \in 1..3, j \in 1..3 :
          /\ i # j
          /\ allDetections[i].label = allDetections[j].label
          /\ OverlapExceeds(allDetections[i].box, allDetections[j].box, GlobalNmsThreshold)

\* The detections a greedy suppression at threshold thr keeps, most confident
\* first, cut to max_det.
MergeAt(all, thr, max_det) ==
    IF all = <<>> THEN <<>>
    ELSE LET keep == SafeNms(all, thr)
             final == SortByConf([k \in 1..Len(keep) |-> all[keep[k]]])
         IN  IF Len(final) > max_det THEN SubSeq(final, 1, max_det) ELSE final

\* C14: in tiled mode the global suppression applies the caller's
\* nms_threshold: a detection is suppressed exactly when its IoU with an
\* already kept, more confident detection exceeds that value.
C14_ConfiguredThresholdApplied ==
    dstate = "done" =>
        finalDetections = MergeAt(allDetections, nmsThreshold, maxDet)

\* C16: merging the concatenation of a merge result with itself returns
\* exactly the detections of that result, each once.
C16_MergeIdempotent ==
    remerged.called => remerged.dets = finalDetections

\* C16 witness: a merge result of two detections, obtained by suppressing a
\* third one, has been merged with itself.
C16_Witness ==
    /\ remerged.called
    /\ Len(allDetections) = 3
    /\ Len(finalDetections) = 2
    /\ Len(remerged.dets) = 2

\* C24: the merge is a barrier: suppression and truncation run only once
\* every tile of the image has been passed to the detector and its
\* detections collected; nothing is merged while tiles are outstanding.
C24_MergeIsBarrier ==
    /\ []((dstate = "tiles" /\ dIdx < Len(slices.tiles)) => finalDetections = <<>>)
    /\ [][(finalDetections' # finalDetections \/ (dstate = "tiles" /\ dstate' = "done"))
            => /\ dIdx = Len(slices.tiles)
               /\ allDetections' = allDetections
               /\ finalDetections' = MergeDetections(allDetections, maxDet)]_vars

\* C24 witness: an image of two tiles, both of which reported detections,
\* has been merged.
C24_Witness ==
    /\ dstate = "done"
    /\ Len(slices.tiles) = 2
    /\ dIdx = 2
    /\ \E i \in 1..Len(allDetections), j \in 1..Len(allDetections) :
          /\ allDetections[i].box[3] <= tileSize
          /\ allDetections[j].box[3] > tileSize
    /\ finalDetections # <<>>

\* The detections the global suppression keeps, before the cut to max_det.
KeptDetections ==
    LET keep == SafeNms(allDetections, GlobalNmsThreshold)
    IN  [k \in 1..Len(keep) |-> allDetections[keep[k]]]

CountOf(ds, d) == Cardinality({i \in 1..Len(ds) : ds[i] = d})

CountAtLeast(ds, c) == Cardinality({i \in 1..Len(ds) : ds[i].conf >= c})

\* C17: the tiled merge returns kept detections only, in non-increasing
\* confidence order, never more than max_det of them, and when more than
\* max_det were kept it returns the max_det most confident ones.
C17_SortedAndTruncated ==
    dstate = "done" =>
        /\ \A i \in 1..Len(finalDetections), j \in 1..Len(finalDetections) :
              i < j => finalDetections[i].conf >= finalDetections[j].conf
        /\ Len(finalDetections) = Min2(Len(KeptDetections), maxDet)
        /\ \A i \in 1..Len(finalDetections) :
              CountOf(finalDetections, finalDetections[i])
                 <= CountOf(KeptDetections, finalDetections[i])
        /\ \A c \in Confs :
              CountAtLeast(finalDetections, c)
                 = Min2(CountAtLeast(KeptDetections, c), maxDet)

\* C17 witness: two detections of different confidence were kept, the less
\* confident one reported first, and max_det = 1 cut the result to the more
\* confident one.
C17_Witness ==
    /\ dstate = "done"
    /\ maxDet = 1
    /\ Len(KeptDetections) = 2
    /\ allDetections[1].conf < allDetections[2].conf
    /\ Len(finalDetections) = 1
    /\ finalDetections[1].conf = 90

----------------------------------------------------------------------------
(* Multi-project class remap: prepare_multi_project_training_job, steps 1-2 *)

\* Class names are sequences of characters.
Space == " "
LowerOf(c) ==
    CASE c = "C" -> "c"
      [] c = "D" -> "d"
      [] c = "O" -> "o"
      [] c = "G" -> "g"
      [] OTHER -> c

Car == <<"c", "a", "r">>
Dog == <<"d", "o", "g">>
Cat == <<"c", "a", "t">>
DogCap == <<"D", "o", "g">>
DogUpper == <<"D", "O", "G">>

\* Lines a project's classes.txt may hold.
ClassLines == {Car, DogCap, DogUpper, Cat, <<Space>> \o Dog \o <<Space>>, <<Space>>}

ProjectIds == <<"A", "B">>

\* str.strip()
RECURSIVE LStrip(_)
LStrip(str) ==
    IF str # <<>> /\ Head(str) = Space THEN LStrip(Tail(str)) ELSE str

RECURSIVE RStrip(_)
RStrip(str) ==
    IF str # <<>> /\ str[Len(str)] = Space
    THEN RStrip(SubSeq(str, 1, Len(str) - 1)) ELSE str

Strip(str) == RStrip(LStrip(str))

\* str.lower()
Lower(str) == [i \in 1..Len(str) |-> LowerOf(str[i])]

\* ProjectService.get_classes: [line.strip() for line in lines if line.strip()]
RECURSIVE GetClasses(_)
GetClasses(lines) ==
    IF lines = <<>> THEN <<>>
    ELSE (IF Strip(Head(lines)) # <<>> THEN <<Strip(Head(lines))>> ELSE <<>>)
         \o GetClasses(Tail(lines))

\* normalized = cls.strip().lower()
Normalise(cls) == Lower(Strip(cls))

MutAddClass(all, cls) == Append(all, Normalise(cls))

\* if normalized not in all_classes: all_classes.append(normalized)
AddClass(all, cls) ==
    IF \E k \in 1..Len(all) : all[k] = Normalise(cls) THEN all
    ELSE Append(all, Normalise(cls))

RECURSIVE AddClasses(_, _)
AddClasses(all, classes) ==
    IF classes = <<>> THEN all
    ELSE AddClasses(AddClass(all, Head(classes)), Tail(classes))

\* Step 1, lines 652-661: the master class list over project_ids in order.
RECURSIVE BuildMaster(_, _, _)
BuildMaster(all, pids, files) ==
    IF pids = <<>> THEN all
    ELSE BuildMaster(AddClasses(all, GetClasses(files[Head(pids)])), Tail(pids), files)

\* all_classes.index(normalized): 0-based index of the first occurrence.
IndexOf(all, n) == (CHOOSE k \in 1..Len(all) : all[k] = n /\ \A j \in 1..(k - 1) : all[j] # n) - 1

\* Step 2, lines 668-674: remap[old_id] = all_classes.index(normalized).
BuildRemap(all, classes) ==
    [old_id \in 0..(Len(classes) - 1) |-> IndexOf(all, Normalise(classes[old_id + 1]))]

InitRemap ==
    /\ TrainIdle
    /\ RegIdle
    /\ SplitIdle
    /\ TileIdle
    /\ MergeIdle
    /\ projectFiles \in [{ProjectIds[1], ProjectIds[2]} -> SeqsUpTo(ClassLines, MaxClasses)]
    /\ allClasses = <<>>
    /\ projectRemaps = <<>>
    /\ stagedLabels = <<>>
    /\ rstate = "idle"

\* Steps 1 and 2 of prepare_multi_project_training_job.
BuildRemapTables ==
    /\ rstate = "idle"
    /\ LET all == BuildMaster(<<>>, ProjectIds, projectFiles) IN
         /\ allClasses' = all
         /\ projectRemaps' = [pid \in DOMAIN projectFiles |->
                                 BuildRemap(all, GetClasses(projectFiles[pid]))]
    /\ rstate' = "built"
    /\ UNCHANGED <<projectFiles, stagedLabels>>
    /\ UNCHANGED notRemapVars

\* Class ids of the annotations of one source label file, in file order.
LabelFiles == {<<>>, <<0, 1>>, <<1, 2>>}

\* new_cls = remap.get(cls_id, cls_id)
RemapGet(remap, cls_id) ==
    IF cls_id \in DOMAIN remap THEN remap[cls_id] ELSE cls_id

\* Lines 722-727: one output line per label, class id remapped.
RemapLabels(remap, labels) ==
    [i \in 1..Len(labels) |-> RemapGet(remap, labels[i])]

\* Step 3, one iteration of "for pid in project_ids" for a project holding
\* one labelled image: read its labels, write the remapped label file
\* (nothing is written when the label list is empty).
CopyLabels ==
    /\ rstate = "built"
    /\ Len(stagedLabels) < Len(ProjectIds)
    /\ LET pid == ProjectIds[Len(stagedLabels) + 1] IN
         \E labels \in LabelFiles :
            stagedLabels' = Append(stagedLabels,
                               [pid |-> pid, src |-> labels,
                                out |-> RemapLabels(projectRemaps[pid], labels)])
    /\ UNCHANGED <<projectFiles, allClasses, projectRemaps, rstate>>
    /\ UNCHANGED notRemapVars

NextRemap == BuildRemapTables \/ CopyLabels

SpecRemap == InitRemap /\ [][NextRemap]_vars

----------------------------------------------------------------------------
(* Claims about the remap builder *)

\* Trimmed, lower-cased names of all sources, sources in the given order,
\* each source's local ids in order.
NameStream ==
    LET a == GetClasses(projectFiles[ProjectIds[1]])
        b == GetClasses(projectFiles[ProjectIds[2]])
    IN  [i \in 1..(Len(a) + Len(b)) |->
            Lower(Strip(IF i <= Len(a) THEN a[i] ELSE b[i - Len(a)]))]

FirstSeen(n) == CHOOSE i \in 1..Len(NameStream) :
                    NameStream[i] = n /\ \A j \in 1..(i - 1) : NameStream[j] # n

\* C10: the unified class list holds each normalised name exactly once, in
\* first-seen order, and every source's table maps local id i to the unified
\* index of its i-th name; A=[car, Dog], B=[DOG, cat] gives [car, dog, cat]
\* with B mapping 0 to 1 and 1 to 2.
C10_UnifiedFirstSeenRemap ==
    rstate = "built" =>
        /\ {allClasses[k] : k \in 1..Len(allClasses)}
              = {NameStream[i] : i \in 1..Len(NameStream)}
        /\ \A k \in 1..Len(allClasses), l \in 1..Len(allClasses) :
              k # l => allClasses[k] # allClasses[l]
        /\ \A k \in 1..Len(allClasses), l \in 1..Len(allClasses) :
              k < l => FirstSeen(allClasses[k]) < FirstSeen(allClasses[l])
        /\ \A pid \in DOMAIN projectFiles :
              LET classes == GetClasses(projectFiles[pid]) IN
                /\ DOMAIN projectRemaps[pid] = 0..(Len(classes) - 1)
                /\ \A i \in 0..(Len(classes) - 1) :
                      allClasses[projectRemaps[pid][i] + 1] = Lower(Strip(classes[i + 1]))
        /\ (projectFiles["A"] = <<Car, DogCap>> /\ projectFiles["B"] = <<DogUpper, Cat>>)
              => /\ allClasses = <<Car, Dog, Cat>>
                 /\ projectRemaps["A"] = (0 :> 0 @@ 1 :> 1)
                 /\ projectRemaps["B"] = (0 :> 1 @@ 1 :> 2)

\* C10 witness: the tables for A=[car, Dog], B=[DOG, cat] have been built.
C10_Witness ==
    /\ rstate = "built"
    /\ projectFiles["A"] = <<Car, DogCap>>
    /\ projectFiles["B"] = <<DogUpper, Cat>>
    /\ Len(allClasses) = 3

----------------------------------------------------------------------------
(* split_polygon (geometry_service.py) *)

Expansion == 20         \* extend_line(c_tuples, expansion=20)

\* Targets are axis-parallel rectangles; cutters are single points (too
\* short) or axis-parallel segments between two distinct points.
SplitTargets == {<<0, 0, 10, 10>>, <<0, 0, 10, 60>>, <<0, 0, 4, 2>>, <<0, 0, 6, 5>>}
CutCoords == {-5, 1, 5, 15}
CutPoints == CutCoords \X CutCoords
Cutters ==
    {<<p>> : p \in CutPoints}
    \cup {c \in CutPoints \X CutPoints :
             c[1] # c[2] /\ (c[1][1] = c[2][1] \/ c[1][2] = c[2][2])}
MinAreas == {MinArea, 50}

Sign(n) == IF n > 0 THEN 1 ELSE IF n < 0 THEN -1 ELSE 0

\* extend_line on a two-point axis-parallel line: each end point moves away
\* from the other by the expansion.
ExtendLine(pts) ==
    LET p0 == pts[1]
        p1 == pts[2]
    IN  << <<p0[1] + Sign(p0[1] - p1[1]) * Expansion,
             p0[2] + Sign(p0[2] - p1[2]) * Expansion>>,
           <<p1[1] + Sign(p1[1] - p0[1]) * Expansion,
             p1[2] + Sign(p1[2] - p0[2]) * Expansion>> >>

MutSplit(box, line) == << box >>

\* shapely.ops.split(polygon, line): the faces of the polygon boundary
\* unioned with the line that lie inside the polygon.  A line that runs
\* through the interior from boundary to boundary gives two pieces; a line
\* that stays outside, lies on the boundary or ends inside gives the polygon
\* itself.
Split(box, line) ==
    LET p == line[1]
        q == line[2]
    IN  IF /\ p[1] = q[1]
           /\ box[1] < p[1] /\ p[1] < box[3]
           /\ Min2(p[2], q[2]) <= box[2] /\ Max2(p[2], q[2]) >= box[4]
        THEN << <<box[1], box[2], p[1], box[4]>>, <<p[1], box[2], box[3], box[4]>> >>
        ELSE IF /\ p[2] = q[2]
                /\ box[2] < p[2] /\ p[2] < box[4]
                /\ Min2(p[1], q[1]) <= box[1] /\ Max2(p[1], q[1]) >= box[3]
             THEN << <<box[1], box[2], box[3], p[2]>>, <<box[1], p[2], box[3], box[4]>> >>
             ELSE << box >>

MutExtractPolygons(geoms, min_area) == geoms

\* _extract_polygons: the polygons of the collection whose area exceeds
\* min_area, in order.
RECURSIVE ExtractPolygons(_, _)
ExtractPolygons(geoms, min_area) ==
    IF geoms = <<>> THEN <<>>
    ELSE (IF Area(Head(geoms)) > min_area THEN <<Head(geoms)>> ELSE <<>>)
         \o ExtractPolygons(Tail(geoms), min_area)

\* The buffer difference of the fallback is kept in half pixels: a piece is
\* [outer, notch], the rectangle outer without the rectangle notch.
BufferWidth2 == 3       \* cutter_line.buffer(1.5): twice the buffer distance

NoNotch == <<0, 0, 0, 0>>

Doubled(box) == <<2 * box[1], 2 * box[2], 2 * box[3], 2 * box[4]>>

\* cutter_line.buffer(1.5) of an axis-parallel two-point line, in half
\* pixels; the round end caps are taken as square.
Buffer(line) ==
    LET p == line[1]
        q == line[2]
    IN  <<2 * Min2(p[1], q[1]) - BufferWidth2, 2 * Min2(p[2], q[2]) - BufferWidth2,
          2 * Max2(p[1], q[1]) + BufferWidth2, 2 * Max2(p[2], q[2]) + BufferWidth2>>

MutDifference(box, strip) == << [outer |-> box, notch |-> NoNotch] >>

\* poly_target.difference(cutter_poly) for a rectangle and a strip: the
\* rectangle itself when they do not overlap, the parts on either side when
\* the strip runs through from edge to edge, otherwise one polygon, the
\* rectangle without the part of the strip inside it.
Difference(box, strip) ==
    IF InterArea(box, strip) = 0
    THEN << [outer |-> box, notch |-> NoNotch] >>
    ELSE IF strip[2] <= box[2] /\ strip[4] >= box[4]
         THEN (IF strip[1] > box[1]
               THEN << [outer |-> <<box[1], box[2], strip[1], box[4]>>, notch |-> NoNotch] >>
               ELSE <<>>)
              \o (IF strip[3] < box[3]
                  THEN << [outer |-> <<strip[3], box[2], box[3], box[4]>>, notch |-> NoNotch] >>
                  ELSE <<>>)
         ELSE IF strip[1] <= box[1] /\ strip[3] >= box[3]
              THEN (IF strip[2] > box[2]
                    THEN << [outer |-> <<box[1], box[2], box[3], strip[2]>>, notch |-> NoNotch] >>
                    ELSE <<>>)
                   \o (IF strip[4] < box[4]
                       THEN << [outer |-> <<box[1], strip[4], box[3], box[4]>>, notch |-> NoNotch] >>
                       ELSE <<>>)
              ELSE << [outer |-> box, notch |-> strip] >>

\* geom.area of a piece of the difference, in quarter px^2.
DifferenceArea(piece) == Area(piece.outer) - InterArea(piece.outer, piece.notch)

\* _extract_polygons on the pieces of the difference (areas in quarter px^2).
RECURSIVE ExtractDifference(_, _)
ExtractDifference(geoms, min_area) ==
    IF geoms = <<>> THEN <<>>
    ELSE (IF DifferenceArea(Head(geoms)) > 4 * min_area THEN <<Head(geoms)>> ELSE <<>>)
         \o ExtractDifference(Tail(geoms), min_area)

InitSplit ==
    /\ TrainIdle
    /\ RegIdle
    /\ TileIdle
    /\ MergeIdle
    /\ RemapIdle
    /\ targetBox \in SplitTargets
    /\ cutterPoints \in Cutters
    /\ minArea \in MinAreas
    /\ splitRaises \in BOOLEAN
    /\ splitResult = <<>>
    /\ finalPolys = <<>>
    /\ sstate = "idle"

\* split_polygon(target_points, cutter_points, min_area)
SplitPolygon ==
    /\ sstate = "idle"
    /\ IF Len(cutterPoints) < 2
       THEN /\ sstate' = "failed"
            /\ UNCHANGED <<splitResult, finalPolys>>
       ELSE /\ IF splitRaises
               THEN /\ splitResult' = Difference(Doubled(targetBox),
                                                 Buffer(ExtendLine(cutterPoints)))
                    /\ finalPolys' = ExtractDifference(splitResult', minArea)
               ELSE /\ splitResult' = Split(targetBox, ExtendLine(cutterPoints))
                    /\ finalPolys' = ExtractPolygons(splitResult', minArea)
            /\ sstate' = "done"
    /\ UNCHANGED <<targetBox, cutterPoints, minArea, splitRaises>>
    /\ UNCHANGED notSplitVars

NextSplit == SplitPolygon

SpecSplit == InitSplit /\ [][NextSplit]_vars

----------------------------------------------------------------------------
(* Claims about split_polygon *)

\* C19: the square (0,0),(10,0),(10,10),(0,10) cut by the line from (5,-5)
\* to (5,15) gives exactly two fragments, each a rectangle of area 50.
C19_SquareSplitInHalves ==
    ( /\ sstate = "done"
      /\ ~splitRaises
      /\ targetBox = <<0, 0, 10, 10>>
      /\ cutterPoints = << <<5, -5>>, <<5, 15>> >>
      /\ minArea = MinArea )
    => /\ Len(finalPolys) = 2
       /\ \A i \in 1..2 : Area(finalPolys[i]) = 50
       /\ Range(finalPolys) = {<<0, 0, 5, 10>>, <<5, 0, 10, 10>>}

\* C19 witness: the square has been cut by that line with the default
\* minimum area.
C19_Witness ==
    /\ sstate = "done"
    /\ ~splitRaises
    /\ targetBox = <<0, 0, 10, 10>>
    /\ cutterPoints = << <<5, -5>>, <<5, 15>> >>
    /\ minArea = MinArea
    /\ Len(finalPolys) = 2

\* Area of a piece of split_result, in quarter px^2.
PieceArea4(piece) ==
    IF splitRaises THEN DifferenceArea(piece) ELSE 4 * Area(piece)

\* C20: every fragment split_polygon returns has area strictly greater than
\* min_area, and every polygon piece of the split whose area is greater than
\* min_area is returned.
C20_FragmentsAboveMinArea ==
    sstate = "done" =>
        /\ \A i \in 1..Len(finalPolys) : PieceArea4(finalPolys[i]) > 4 * minArea
        /\ \A k \in 1..Len(splitResult) :
              PieceArea4(splitResult[k]) > 4 * minArea
              => CountOf(finalPolys, splitResult[k]) = CountOf(splitResult, splitResult[k])
        /\ \A i \in 1..Len(finalPolys) :
              \E k \in 1..Len(splitResult) : splitResult[k] = finalPolys[i]

\* C20 witness: a cut gave one piece of exactly the minimum area, which was
\* dropped, and a larger piece, which was returned.
C20_Witness ==
    /\ sstate = "done"
    /\ ~splitRaises
    /\ Len(splitResult) = 2
    /\ Len(finalPolys) = 1
    /\ \E k \in 1..2 : Area(splitResult[k]) = minArea

\* Half-pixel cells of the target, by their lower left corner.
TargetCells ==
    (2 * targetBox[1] .. 2 * targetBox[3] - 1) \X (2 * targetBox[2] .. 2 * targetBox[4] - 1)

CellIn(c, box) ==
    /\ box[1] <= c[1] /\ c[1] < box[3]
    /\ box[2] <= c[2] /\ c[2] < box[4]

CellInPiece(c, piece) == CellIn(c, piece.outer) /\ ~CellIn(c, piece.notch)

\* C21: when the split by the extended cutter raises, split_polygon does not
\* raise: it returns the fragments of the polygon minus the cutter buffered
\* by 1.5, that is, pieces that together are exactly the part of the target
\* not within the buffer, those above min_area being returned.
C21_FallbackToBufferDifference ==
    (sstate # "idle" /\ splitRaises /\ Len(cutterPoints) >= 2) =>
        /\ sstate = "done"
        /\ \A c \in TargetCells :
              Cardinality({k \in 1..Len(splitResult) : CellInPiece(c, splitResult[k])})
                 = IF CellIn(c, Buffer(ExtendLine(cutterPoints))) THEN 0 ELSE 1
        /\ \A k \in 1..Len(splitResult) :
              /\ \E c \in TargetCells : CellInPiece(c, splitResult[k])
              /\ \A x \in splitResult[k].outer[1]..(splitResult[k].outer[3] - 1),
                     y \in splitResult[k].outer[2]..(splitResult[k].outer[4] - 1) :
                     <<x, y>> \in TargetCells
        /\ \A k \in 1..Len(splitResult) :
              (DifferenceArea(splitResult[k]) > 4 * minArea)
                 <=> (\E i \in 1..Len(finalPolys) : finalPolys[i] = splitResult[k])
        /\ \A i \in 1..Len(finalPolys) :
              /\ \E k \in 1..Len(splitResult) : finalPolys[i] = splitResult[k]
              /\ \A j \in 1..Len(finalPolys) : finalPolys[j] = finalPolys[i] => j = i

\* C21 witness: the split raised on a cut through the 10 x 10 square at
\* x = 5 and the two parts left of 3.5 and right of 6.5 were returned.
C21_Witness ==
    /\ sstate = "done"
    /\ splitRaises
    /\ targetBox = <<0, 0, 10, 10>>
    /\ Len(finalPolys) = 2
    /\ finalPolys[1].outer = <<0, 0, 7, 20>>
    /\ finalPolys[2].outer = <<13, 0, 20, 20>>

----------------------------------------------------------------------------
(* Claims about the label remap *)

\* C11: every annotation written to the merged dataset carries a class id of
\* the unified id space, 0 <= id < number of unified classes, whatever class
\* id the source label carried.
C11_RemappedIdsInUnifiedSpace ==
    \A k \in 1..Len(stagedLabels) :
        \A i \in 1..Len(stagedLabels[k].out) :
            /\ 0 <= stagedLabels[k].out[i]
            /\ stagedLabels[k].out[i] < Len(allClasses)

\* Labels whose class id is a line of the source's class list are written
\* with the unified index of that line's name.
ListedIdsRemapped ==
    \A k \in 1..Len(stagedLabels) :
        LET classes == GetClasses(projectFiles[stagedLabels[k].pid]) IN
        \A i \in 1..Len(stagedLabels[k].src) :
            stagedLabels[k].src[i] < Len(classes)
            => /\ stagedLabels[k].out[i] < Len(allClasses)
               /\ allClasses[stagedLabels[k].out[i] + 1]
                     = Normalise(classes[stagedLabels[k].src[i] + 1])

----------------------------------------------------------------------------
(* Claims about the class registry *)

\* C1: callers that run get_or_create_class_id concurrently with distinct,
\* not yet registered names receive pairwise distinct ids.
C1_ConcurrentDistinctIds ==
    \A t1 \in Callers, t2 \in Callers :
        ( /\ t1 # t2
          /\ pc[t1] = "done" /\ pc[t2] = "done"
          /\ fresh[t1] /\ fresh[t2]
          /\ arg[t1] # arg[t2] )
        => ret[t1] # ret[t2]

\* C5: a sequential call on a readable registry with a registered name
\* returns the existing id and leaves the file unchanged; with a new name it
\* adds exactly one entry, with id max(existing ids)+1 (0 when empty), and
\* changes no existing entry.
C5_SequentialGetOrCreate ==
    [][ (calls' = calls + 1 /\ file.ok) =>
          LET name == lastCall'.name
              id   == lastCall'.ret
              old  == file.map
          IN  IF name \in DOMAIN old
              THEN /\ id = old[name]
                   /\ file' = file
                   /\ classesTxt' = classesTxt
              ELSE /\ file'.ok
                   /\ DOMAIN file'.map = DOMAIN old \cup {name}
                   /\ \A n \in DOMAIN old : file'.map[n] = old[n]
                   /\ file'.map[name] = id
                   /\ id = IF DOMAIN old = {} THEN 0
                           ELSE Max({old[n] : n \in DOMAIN old}) + 1 ]_vars

\* C5 witness: a new name has been appended after an existing entry, and a
\* registered name has been looked up before.
C5_Witness ==
    /\ calls >= 2
    /\ file.ok
    /\ lastCall.name \in DOMAIN file.map
    /\ file.map[lastCall.name] = lastCall.ret
    /\ lastCall.ret >= 2
    /\ Cardinality(DOMAIN file.map) = 2

\* C6: over any sequence of loads and calls, also after the file has become
\* unreadable, no id is returned for two names and no name gets two ids.
C6_IdsNeverReused ==
    \A p \in returned, q \in returned : (p[1] = q[1]) <=> (p[2] = q[2])

\* C27: after two get_or_create_class_id calls for distinct new names have
\* both returned, under any interleaving, both names are in the persisted
\* registry, each with the id returned to its caller.
C27_NoRegistrationLost ==
    \A t1 \in Callers, t2 \in Callers :
        ( /\ t1 # t2
          /\ pc[t1] = "done" /\ pc[t2] = "done"
          /\ fresh[t1] /\ fresh[t2]
          /\ arg[t1] # arg[t2] )
        => /\ file.ok
           /\ \A t \in {t1, t2} :
                 /\ arg[t] \in DOMAIN file.map
                 /\ file.map[arg[t]] = ret[t]

\* C30: over any sequence of save_annotation calls a label string is always
\* written with the same class id and two different label strings are never
\* written with the same class id, also for labels with surrounding
\* whitespace and for the empty string.
C30_LabelIdsStableInjective ==
    \A p \in savedLabels, q \in savedLabels : (p[1] = q[1]) <=> (p[2] = q[2])

\* The <<label, cls_id>> pairs one save writes, starting from classes.txt
\* holding the lines txt.
SavedBy(txt, labels) ==
    Range(AssignLabels([map |-> LoadClassMap(txt), txt |-> txt, out |-> <<>>],
                       labels).out)

\* Within one save, on a classes.txt without repeated lines, every label is
\* written with one id and no id is written for two labels.
InjectiveWithinOneSave ==
    Cardinality(Range(classesTxt)) = Len(classesTxt)
    => \A labels \in SeqsUpTo(AnnLabels, MaxAnns) :
          \A p \in SavedBy(classesTxt, labels), q \in SavedBy(classesTxt, labels) :
              (p[1] = q[1]) <=> (p[2] = q[2])

\* C12: after any sequence of get_or_create_class_id calls and annotation
\* saves, classes.txt holds exactly the registry's names in increasing id
\* order, line i being the name whose registry id is i.
C12_ClassesTxtMatchesRegistry ==
    file.ok =>
        /\ Len(classesTxt) = Cardinality(DOMAIN file.map)
        /\ \A i \in 1..Len(classesTxt) :
              /\ classesTxt[i] \in DOMAIN file.map
              /\ file.map[classesTxt[i]] = i - 1

\* Every get_or_create_class_id call that registers a name leaves classes.txt
\* as the registry's names in increasing id order.
ClassesTxtSyncedOnRegister ==
    [][(calls' = calls + 1 /\ file' # file)
         => classesTxt' = SortedClasses(file'.map)]_vars

Dense(reg) == Range(reg) = 0..(Cardinality(DOMAIN reg) - 1)

\* C13: after _ensure_registry (with or without migration from classes.txt)
\* and any sequence of get_or_create_class_id calls, the ids of the n
\* registered names are exactly 0..n-1.
C13_DenseIds ==
    file.ok => Dense(file.map)

\* A get_or_create_class_id call on a readable registry with dense ids leaves
\* the ids dense.
DensePreservedByCall ==
    [][(calls' = calls + 1 /\ file.ok /\ Dense(file.map))
         => (file'.ok /\ Dense(file'.map))]_vars

----------------------------------------------------------------------------
(* Training endpoints, api/v1/endpoints/training.py *)

Requests == 1..MaxRequests

BaseModels == {"yolov8n.pt", "sam_b.pt"}

\* "sam" in base_model.lower()
IsSam(base_model) == base_model = "sam_b.pt"

InitTrainV1 ==
    /\ RegIdle
    /\ TileIdle
    /\ MergeIdle
    /\ RemapIdle
    /\ SplitIdle
    /\ SvcIdle
    /\ TasksIdle
    /\ v1Status = [is_training |-> FALSE, stop_requested |-> FALSE]
    /\ v1Req = [r \in Requests |-> "new"]
    /\ v1Cancel = "idle"

\* POST /train-model.  The handler is a coroutine without await: it runs to
\* its return in one piece on the event loop.  add_task only queues the
\* task; it is started after the response has been sent.
TrainModel(r, base_model) ==
    /\ v1Req[r] = "new"
    /\ v1Req' = [v1Req EXCEPT ![r] =
                    IF v1Status.is_training THEN "rejected"
                    ELSE IF IsSam(base_model) THEN "invalid"
                    ELSE "accepted"]
    /\ UNCHANGED <<v1Status, v1Cancel>>
    /\ UNCHANGED <<svcVars, taskVars>>
    /\ UNCHANGED notTrainVars

\* _train_model_task starts in a worker thread: is_training = True,
\* stop_requested = False.
StartTrainTask(r) ==
    /\ v1Req[r] = "accepted"
    /\ v1Req' = [v1Req EXCEPT ![r] = "running"]
    /\ v1Status' = [is_training |-> TRUE, stop_requested |-> FALSE]
    /\ UNCHANGED v1Cancel
    /\ UNCHANGED <<svcVars, taskVars>>
    /\ UNCHANGED notTrainVars

\* The task body ends (completed, error, or InterruptedError after it saw
\* stop_requested); finally: is_training = False.
EndTrainTask(r) ==
    /\ v1Req[r] = "running"
    /\ v1Req' = [v1Req EXCEPT ![r] = "resetting"]
    /\ v1Status' = [v1Status EXCEPT !.is_training = FALSE]
    /\ UNCHANGED v1Cancel
    /\ UNCHANGED <<svcVars, taskVars>>
    /\ UNCHANGED notTrainVars

\* finally: stop_requested = False; the task returns.
ResetTrainTask(r) ==
    /\ v1Req[r] = "resetting"
    /\ v1Req' = [v1Req EXCEPT ![r] = "finished"]
    /\ v1Status' = [v1Status EXCEPT !.stop_requested = FALSE]
    /\ UNCHANGED v1Cancel
    /\ UNCHANGED <<svcVars, taskVars>>
    /\ UNCHANGED notTrainVars

\* POST /cancel-training: if not is_training, return "No training in progress".
CancelCheck ==
    /\ v1Cancel # "checked"
    /\ v1Cancel' = IF v1Status.is_training THEN "checked" ELSE "refused"
    /\ UNCHANGED <<v1Status, v1Req>>
    /\ UNCHANGED <<svcVars, taskVars>>
    /\ UNCHANGED notTrainVars

\* POST /cancel-training: stop_requested = True.
CancelSet ==
    /\ v1Cancel = "checked"
    /\ v1Cancel' = "accepted"
    /\ v1Status' = [v1Status EXCEPT !.stop_requested = TRUE]
    /\ UNCHANGED v1Req
    /\ UNCHANGED <<svcVars, taskVars>>
    /\ UNCHANGED notTrainVars

NextTrainV1 ==
    \/ \E r \in Requests, base_model \in BaseModels : TrainModel(r, base_model)
    \/ \E r \in Requests : StartTrainTask(r)
    \/ \E r \in Requests : EndTrainTask(r)
    \/ \E r \in Requests : ResetTrainTask(r)
    \/ CancelCheck
    \/ CancelSet

SpecTrainV1 == InitTrainV1 /\ [][NextTrainV1]_vars

----------------------------------------------------------------------------
(* Claims about the api/v1 training endpoint *)

\* C26: at most one training task at a time: while one request is accepted
\* and its training has not finished, no other request is accepted.
C26_AtMostOneTraining ==
    \A r1 \in Requests, r2 \in Requests :
        r1 # r2 => ~(v1Req[r1] \in {"accepted", "running"}
                     /\ v1Req[r2] \in {"accepted", "running"})

\* A request handled while the status shows is_training is rejected.
RejectedWhileStatusTraining ==
    [][\A r \in Requests :
          (v1Req[r] = "new" /\ v1Req'[r] # "new" /\ v1Status.is_training)
          => v1Req'[r] = "rejected"]_vars

----------------------------------------------------------------------------
(* TrainingService (services/training_service.py) *)

Runs == 1..MaxRuns

\* How the body of run_training_task ends, and the message it leaves.
Outcomes == {"completed", "no_best", "error", "cancelled"}

OutcomeMessage(outcome) ==
    CASE outcome = "completed" -> "Completed!"
      [] outcome = "no_best"   -> "Failed: best.pt not found."
      [] outcome = "error"     -> "Error"
      [] outcome = "cancelled" -> "Training Cancelled."

InitTrainSvc ==
    /\ RegIdle
    /\ TileIdle
    /\ MergeIdle
    /\ RemapIdle
    /\ SplitIdle
    /\ V1Idle
    /\ TasksIdle
    /\ trainingStatus = [is_training |-> FALSE, stop_requested |-> FALSE,
                         message |-> "Idle"]
    /\ runPc = [t \in Runs |-> "idle"]
    /\ stopPc = "idle"

\* run_training_task, lines 85-90: the status is reset at the start.
StartRun(t) ==
    /\ runPc[t] = "idle"
    /\ runPc' = [runPc EXCEPT ![t] = "running"]
    /\ trainingStatus' = [is_training |-> TRUE, stop_requested |-> FALSE,
                          message |-> "Initializing..."]
    /\ UNCHANGED stopPc
    /\ UNCHANGED <<v1Vars, taskVars>>
    /\ UNCHANGED notTrainVars

\* The body ends: with its last message, or in one of the except clauses.
\* InterruptedError is raised only where stop_requested is read as true
\* (lines 128, 193).
EndRun(t, outcome) ==
    /\ runPc[t] = "running"
    /\ outcome = "cancelled" => trainingStatus.stop_requested
    /\ runPc' = [runPc EXCEPT ![t] = "finally"]
    /\ trainingStatus' = [trainingStatus EXCEPT !.message = OutcomeMessage(outcome)]
    /\ UNCHANGED stopPc
    /\ UNCHANGED <<v1Vars, taskVars>>
    /\ UNCHANGED notTrainVars

\* finally: _training_status.is_training = False
ResetIsTraining(t) ==
    /\ runPc[t] = "finally"
    /\ runPc' = [runPc EXCEPT ![t] = "resetting"]
    /\ trainingStatus' = [trainingStatus EXCEPT !.is_training = FALSE]
    /\ UNCHANGED stopPc
    /\ UNCHANGED <<v1Vars, taskVars>>
    /\ UNCHANGED notTrainVars

\* finally: _training_status.stop_requested = False; the call returns.
ResetStopRequested(t) ==
    /\ runPc[t] = "resetting"
    /\ runPc' = [runPc EXCEPT ![t] = "done"]
    /\ trainingStatus' = [trainingStatus EXCEPT !.stop_requested = FALSE]
    /\ UNCHANGED stopPc
    /\ UNCHANGED <<v1Vars, taskVars>>
    /\ UNCHANGED notTrainVars

\* request_stop: if _training_status.is_training ... else return False
RequestStopCheck ==
    /\ stopPc \in {"idle", "true", "false"}
    /\ stopPc' = IF trainingStatus.is_training THEN "checked" ELSE "false"
    /\ UNCHANGED <<trainingStatus, runPc>>
    /\ UNCHANGED <<v1Vars, taskVars>>
    /\ UNCHANGED notTrainVars

\* request_stop: _training_status.stop_requested = True
RequestStopSet ==
    /\ stopPc = "checked"
    /\ stopPc' = "messaging"
    /\ trainingStatus' = [trainingStatus EXCEPT !.stop_requested = TRUE]
    /\ UNCHANGED runPc
    /\ UNCHANGED <<v1Vars, taskVars>>
    /\ UNCHANGED notTrainVars

\* request_stop: _training_status.message = "Stopping..."; return True
RequestStopMessage ==
    /\ stopPc = "messaging"
    /\ stopPc' = "true"
    /\ trainingStatus' = [trainingStatus EXCEPT !.message = "Stopping..."]
    /\ UNCHANGED runPc
    /\ UNCHANGED <<v1Vars, taskVars>>
    /\ UNCHANGED notTrainVars

NextTrainSvc ==
    \/ \E t \in Runs : StartRun(t)
    \/ \E t \in Runs, outcome \in Outcomes : EndRun(t, outcome)
    \/ \E t \in Runs : ResetIsTraining(t)
    \/ \E t \in Runs : ResetStopRequested(t)
    \/ RequestStopCheck
    \/ RequestStopSet
    \/ RequestStopMessage

SpecTrainSvc == InitTrainSvc /\ [][NextTrainSvc]_vars

----------------------------------------------------------------------------
(* Claims about TrainingService *)

\* C28: once a training task has finished and no other is running, the
\* status shows is_training = false and stop_requested = false, however the
\* task's final reset interleaves with a concurrent request_stop.
C28_StatusClearAfterFinish ==
    ( /\ \E t \in Runs : runPc[t] = "done"
      /\ \A t \in Runs : runPc[t] \in {"idle", "done"} )
    => (~trainingStatus.is_training /\ ~trainingStatus.stop_requested)

\* The final reset of the last running task leaves the status clear.
ResetLeavesStatusClear ==
    [][\A t \in Runs :
          ( /\ runPc[t] = "resetting" /\ runPc'[t] = "done"
            /\ \A u \in Runs \ {t} : runPc[u] \in {"idle", "done"} )
          => (~trainingStatus'.is_training /\ ~trainingStatus'.stop_requested)]_vars

----------------------------------------------------------------------------
(* Training endpoint with task records, api/endpoints/training.py *)

\* Task ids (uuids), in the order create_task hands them out.
TaskIds == 1..MaxPosts

\* validate_model_for_training: the name contains "sam", "grounding", "dino"
\* or "clip".
IsFoundationModel(base_model) == base_model = "sam_b.pt"

InitTasks ==
    /\ RegIdle
    /\ TileIdle
    /\ MergeIdle
    /\ RemapIdle
    /\ SplitIdle
    /\ V1Idle
    /\ SvcIdle
    /\ posts = 0
    /\ taskDb = [t \in TaskIds |-> "absent"]
    /\ bgJobs = [t \in TaskIds |-> "none"]
    /\ reported = [t \in TaskIds |-> "none"]

\* POST /train-model: validate (HTTP 400 for a foundation model), create the
\* task row with status PENDING, add run_training_task as background task.
PostTrainModel(base_model) ==
    /\ posts < MaxPosts
    /\ posts' = posts + 1
    /\ IF IsFoundationModel(base_model)
       THEN UNCHANGED <<taskDb, bgJobs>>
       ELSE LET new_task == Cardinality({t \in TaskIds : taskDb[t] # "absent"}) + 1 IN
            /\ taskDb' = [taskDb EXCEPT ![new_task] = "PENDING"]
            /\ bgJobs' = [bgJobs EXCEPT ![new_task] = "queued"]
    /\ UNCHANGED reported
    /\ UNCHANGED <<v1Vars, svcVars>>
    /\ UNCHANGED notTrainVars

\* The background task is called as run_training_task(task_id=..., ...).
\* run_training_task has no task_id parameter: the call raises TypeError
\* before the body is entered.  Nothing in run_training_task refers to
\* TaskService, so the row is not touched.
RunBackgroundTask(t) ==
    /\ bgJobs[t] = "queued"
    /\ bgJobs' = [bgJobs EXCEPT ![t] = "raised"]
    /\ UNCHANGED <<posts, taskDb, reported>>
    /\ UNCHANGED <<v1Vars, svcVars>>
    /\ UNCHANGED notTrainVars

\* GET /tasks/{task_id}: 404 when there is no row, else the row.
GetTaskStatus(t) ==
    /\ reported' = [reported EXCEPT ![t] =
                       IF taskDb[t] = "absent" THEN "404" ELSE taskDb[t]]
    /\ UNCHANGED <<posts, taskDb, bgJobs>>
    /\ UNCHANGED <<v1Vars, svcVars>>
    /\ UNCHANGED notTrainVars

NextTasks ==
    \/ \E base_model \in BaseModels : PostTrainModel(base_model)
    \/ \E t \in TaskIds : RunBackgroundTask(t)
    \/ \E t \in TaskIds : GetTaskStatus(t)

SpecTasks == InitTasks /\ [][NextTasks]_vars

\* Starlette runs every background task it was given once the response has
\* been sent.
SpecTasksFair ==
    SpecTasks /\ \A t \in TaskIds : WF_vars(RunBackgroundTask(t))

----------------------------------------------------------------------------
(* Claims about task records *)

\* C29: every task record created by POST /train-model eventually leaves the
\* PENDING status: once the background training has ended, its status is
\* COMPLETED or FAILED.
C29_TaskLeavesPending ==
    \A t \in TaskIds :
        (taskDb[t] = "PENDING") ~> (taskDb[t] \in {"COMPLETED", "FAILED"})

\* Once the background call of a task has ended, GET /tasks/{task_id} does
\* not report PENDING for it.
ReportAfterEndNotPending ==
    [][\A t \in TaskIds :
          (bgJobs[t] = "raised" /\ reported'[t] # reported[t])
          => reported'[t] \in {"COMPLETED", "FAILED"}]_vars

\* Every background task that was added is eventually called, and ends.
BackgroundTaskEventuallyEnds ==
    \A t \in TaskIds : (bgJobs[t] = "queued") ~> (bgJobs[t] = "raised")

====
